---- MODULE Spec2Model ----
(***************************************************************************)
(* Model of src/task/08-objects-tasks.js: the Selector class, the          *)
(* cssSelectorBuilder facade, and the getJSON / fromJSON helpers.          *)
(*                                                                         *)
(* Objects live in explicit heaps so that identity and aliasing are        *)
(* visible: a Selector holds a reference to its parts array and a          *)
(* reference to its seen set.  Strings are TLA+ strings, joined with \o.   *)
(***************************************************************************)
EXTENDS Integers, Sequences, FiniteSets, TLC

VARIABLES
  selectors,  \* heap of Selector objects: [specificity, parts (ref), seen (ref)]
  arrays,     \* heap of JS arrays (the parts arrays): sequences of strings
  sets,       \* heap of JS Sets (the seen sets): sets of strings
  calls,      \* history: per Selector, the Selector methods that returned normally on it
  origin,     \* history: per Selector, the facade entry point that constructed it
  last,       \* the most recent API call and its outcome
  ncalls,     \* number of API calls made so far in this run
  jheap,      \* heap of plain JS objects: [proto (ref or 0), own (ordered key/value pairs)]
  jcall       \* the getJSON / fromJSON call in progress and its results

vars == <<selectors, arrays, sets, calls, origin, last, ncalls, jheap, jcall>>

jsonVars == <<jheap, jcall>>

(***************************************************************************)
(* Bounds and input alphabets                                              *)
(***************************************************************************)
MaxCalls == 3    \* API calls made in one run of the selector builder

Categories == <<"element", "id", "class", "attr", "pseudoClass", "pseudoElement">>

UniqueCategories == {"element", "id", "pseudoElement"}
RepeatableCategories == {"class", "attr", "pseudoClass"}

Values == [element       |-> {"a", "div"},
           id            |-> {"main"},
           class         |-> {"a", "b", "container", "editable"},
           attr          |-> {"href$=\".png\""},
           pseudoClass   |-> {"focus"},
           pseudoElement |-> {"after"}]

Combinators == {" ", "+", "&"}

MaxFields == 2   \* own fields of the object handed to getJSON

Keys == {"width", "height", "name"}

PlainValues ==
  {[t |-> "number", n |-> 10], [t |-> "number", n |-> 20],
   [t |-> "number", n |-> 0 - 7],
   [t |-> "string", s |-> ""], [t |-> "string", s |-> "a\"b\\c"],
   [t |-> "string", s |-> "x, y: {z}"],
   [t |-> "boolean", b |-> TRUE],
   [t |-> "null"],
   [t |-> "object", props |-> <<[key |-> "width", value |-> [t |-> "number", n |-> 3]]>>],
   [t |-> "array", elems |-> <<[t |-> "boolean", b |-> FALSE], [t |-> "string", s |-> "x"]>>]}

\* The property lists of the plain objects handed to getJSON: at most
\* MaxFields fields, with distinct keys, in every order.
PlainProps ==
  UNION {{[i \in 1..n |-> [key |-> ks[i], value |-> vs[i]]] :
            ks \in {f \in [1..n -> Keys] : \A i, j \in 1..n : i # j => f[i] # f[j]},
            vs \in [1..n -> PlainValues]} : n \in 0..MaxFields}

Dimensions == {0, 10, 20}

\* Texts handed to fromJSON directly: the documented example, and text that
\* is not JSON.
Texts == {"{\"width\":10, \"height\":20}", "{\"width\":10,", "{width:10}"}

(***************************************************************************)
(* Selector (lines 112-173)                                                *)
(***************************************************************************)
Heap == [selectors |-> selectors, arrays |-> arrays, sets |-> sets]

\* Mutant of Selector: the seen Set is one object shared by every instance.
SelectorSharedSeen(h) ==
  [selectors |-> Append(h.selectors,
                        [specificity |-> 0,
                         parts       |-> Len(h.arrays) + 1,
                         seen        |-> 1]),
   arrays    |-> Append(h.arrays, <<>>),
   sets      |-> IF h.sets = <<>> THEN <<{}>> ELSE h.sets]

\* constructor(): a new object with its own empty array and its own empty Set.
\* The constructor takes no parameters; an argument passed to it is ignored.
Selector(h) ==
  [selectors |-> Append(h.selectors,
                        [specificity |-> 0,
                         parts       |-> Len(h.arrays) + 1,
                         seen        |-> Len(h.sets) + 1]),
   arrays    |-> Append(h.arrays, <<>>),
   sets      |-> Append(h.sets, {})]

\* The reference `new Selector()` evaluates to in heap h.
NewRef(h) == Len(h.selectors) + 1

\* Outcome of a method call: thrown or not, and the heap it leaves behind.
Returned(h) == [thrown |-> FALSE, heap |-> h]
Thrown(h) == [thrown |-> TRUE, heap |-> h]

\* Mutant of checkDuplicate: the value is never recorded in seen.
checkDuplicateNoAdd(h, this, value) ==
  IF value \in h.sets[h.selectors[this].seen] THEN Thrown(h) ELSE Returned(h)

\* _checkDuplicate(value): throws when seen has the value, else adds it.
checkDuplicate(h, this, value) ==
  LET s == h.selectors[this].seen IN
  IF value \in h.sets[s]
    THEN Thrown(h)
    ELSE Returned([h EXCEPT !.sets[s] = @ \cup {value}])

\* this.parts.push(part)
push(h, this, part) ==
  [h EXCEPT !.arrays[h.selectors[this].parts] = Append(@, part)]

\* Mutant of fragment: the part is pushed before the duplicate check.
fragmentPushFirst(h, this, key, part, weight) ==
  LET pushed == [push(h, this, part)
                   EXCEPT !.selectors[this].specificity = @ + weight]
      c == checkDuplicate(pushed, this, key)
  IN IF c.thrown THEN c ELSE Returned(c.heap)

\* The body shared by the six fragment methods: check, push, add specificity.
fragment(h, this, key, part, weight) ==
  LET c == checkDuplicate(h, this, key) IN
  IF c.thrown
    THEN c
    ELSE Returned([push(c.heap, this, part)
                     EXCEPT !.selectors[this].specificity = @ + weight])

element(h, this, value) == fragment(h, this, "element", value, 1)

id(h, this, value) == fragment(h, this, "id", "#" \o value, 100)

class(h, this, value) == fragment(h, this, "class", "." \o value, 10)

attr(h, this, value) == fragment(h, this, "attr", "[" \o value \o "]", 1)

pseudoClass(h, this, value) == fragment(h, this, "pseudoClass", ":" \o value, 1)

pseudoElement(h, this, value) == fragment(h, this, "psuedoElement", "::" \o value, 0)

\* Array.prototype.join(""): the elements' texts, concatenated.
RECURSIVE join(_)
join(parts) == IF parts = <<>> THEN "" ELSE Head(parts) \o join(Tail(parts))

\* Mutant of stringify: the parts are consumed by the read.
stringifyConsuming(h, this) ==
  [thrown |-> FALSE,
   heap   |-> [h EXCEPT !.arrays[h.selectors[this].parts] = <<>>],
   text   |-> join(h.arrays[h.selectors[this].parts])]

\* stringify(): reads the parts array, changes nothing.
stringify(h, this) ==
  [thrown |-> FALSE, heap |-> h, text |-> join(h.arrays[h.selectors[this].parts])]

\* Dispatch of a fragment method by its name.
method(cat, h, this, value) ==
  CASE cat = "element"       -> element(h, this, value)
    [] cat = "id"            -> id(h, this, value)
    [] cat = "class"         -> class(h, this, value)
    [] cat = "attr"          -> attr(h, this, value)
    [] cat = "pseudoClass"   -> pseudoClass(h, this, value)
    [] cat = "pseudoElement" -> pseudoElement(h, this, value)

(***************************************************************************)
(* cssSelectorBuilder (lines 175-213)                                      *)
(***************************************************************************)
\* element: new Selector().element(value)
builderElement(h, value) == element(Selector(h), NewRef(h), value)

\* The other five entry points: new Selector().element("").<method>(value)
builderOther(cat, h, value) ==
  LET e == element(Selector(h), NewRef(h), "") IN
  IF e.thrown THEN e ELSE method(cat, e.heap, NewRef(h), value)

builderId(h, value) == builderOther("id", h, value)

builderClass(h, value) == builderOther("class", h, value)

builderAttr(h, value) == builderOther("attr", h, value)

builderPseudoClass(h, value) == builderOther("pseudoClass", h, value)

builderPseudoElement(h, value) == builderOther("pseudoElement", h, value)

\* parts.push(...items): the spread is read first, then appended in order.
pushAll(h, this, items) ==
  [h EXCEPT !.arrays[h.selectors[this].parts] = @ \o items]

Max(a, b) == IF a >= b THEN a ELSE b

\* Mutant of combine: the new Selector takes selector1's array instead of
\* copying its elements.
combineAliased(h, selector1, combinator, selector2) ==
  LET n  == NewRef(h)
      h0 == [Selector(h) EXCEPT !.selectors[n].parts = h.selectors[selector1].parts]
      h2 == push(h0, n, " ")
      h3 == push(h2, n, combinator)
      h4 == push(h3, n, " ")
      h5 == pushAll(h4, n, h4.arrays[h4.selectors[selector2].parts])
  IN Returned([h5 EXCEPT !.selectors[n].specificity =
                 Max(h5.selectors[selector1].specificity,
                     h5.selectors[selector2].specificity)])

\* Mutant of combine: the combinator is pushed without the spaces around it.
combineNoSpaces(h, selector1, combinator, selector2) ==
  LET n  == NewRef(h)
      h0 == Selector(h)
      h1 == pushAll(h0, n, h0.arrays[h0.selectors[selector1].parts])
      h3 == push(h1, n, combinator)
      h5 == pushAll(h3, n, h3.arrays[h3.selectors[selector2].parts])
  IN Returned([h5 EXCEPT !.selectors[n].specificity =
                 Max(h5.selectors[selector1].specificity,
                     h5.selectors[selector2].specificity)])

\* combine: a new Selector whose parts are selector1's parts, " ", the
\* combinator, " ", selector2's parts; its seen set stays empty.
combine(h, selector1, combinator, selector2) ==
  LET n  == NewRef(h)
      h0 == Selector(h)
      h1 == pushAll(h0, n, h0.arrays[h0.selectors[selector1].parts])
      h2 == push(h1, n, " ")
      h3 == push(h2, n, combinator)
      h4 == push(h3, n, " ")
      h5 == pushAll(h4, n, h4.arrays[h4.selectors[selector2].parts])
  IN Returned([h5 EXCEPT !.selectors[n].specificity =
                 Max(h5.selectors[selector1].specificity,
                     h5.selectors[selector2].specificity)])

(***************************************************************************)
(* JS values, Rectangle, getJSON and fromJSON (lines 24-62)                *)
(***************************************************************************)
JNum(n) == [t |-> "number", n |-> n]
JStr(s) == [t |-> "string", s |-> s]
JBool(b) == [t |-> "boolean", b |-> b]
JNull == [t |-> "null"]
JUndefined == [t |-> "undefined"]
JFn(name) == [t |-> "function", name |-> name]
JArr(elems) == [t |-> "array", elems |-> elems]
JObj(props) == [t |-> "object", props |-> props]

Prop(key, value) == [key |-> key, value |-> value]

\* obj[key] = value on a list of own properties: an existing key keeps its
\* place and takes the value, a new key goes last.
SetProp(props, key, value) ==
  IF \E i \in DOMAIN props : props[i].key = key
    THEN [i \in DOMAIN props |->
            IF props[i].key = key THEN Prop(key, value) ELSE props[i]]
    ELSE Append(props, Prop(key, value))

\* The objects that exist when the module is loaded.
ObjectPrototype == 1
RectanglePrototype == 2

LoadedHeap ==
  << [proto |-> 0, props |-> <<>>],
     [proto |-> ObjectPrototype,
      props |-> <<Prop("getArea", JFn("Rectangle.prototype.getArea"))>>] >>

\* new Rectangle(width, height)
Rectangle(heap, width, height) ==
  Append(heap, [proto |-> RectanglePrototype,
                props |-> <<Prop("width", JNum(width)), Prop("height", JNum(height))>>])

\* obj[key]: the own property, else the prototype chain's, else undefined.
RECURSIVE Get(_, _, _)
Get(heap, obj, key) ==
  IF obj = 0 THEN JUndefined
  ELSE IF \E i \in DOMAIN heap[obj].props : heap[obj].props[i].key = key
    THEN heap[obj].props[CHOOSE i \in DOMAIN heap[obj].props :
                           heap[obj].props[i].key = key].value
    ELSE Get(heap, heap[obj].proto, key)

\* Rectangle.prototype.getArea, for numeric width and height.
getArea(heap, this) == Get(heap, this, "width").n * Get(heap, this, "height").n

\* ---- JSON.stringify -----------------------------------------------------
Ch(t, i) == IF i >= 1 /\ i <= Len(t) THEN SubSeq(t, i, i) ELSE ""

Digits == {"0", "1", "2", "3", "4", "5", "6", "7", "8", "9"}
Digit(d) == SubSeq("0123456789", d + 1, d + 1)
DigitVal(c) == CHOOSE d \in 0..9 : Digit(d) = c

RECURSIVE NatText(_)
NatText(n) == IF n < 10 THEN Digit(n) ELSE NatText(n \div 10) \o Digit(n % 10)

NumText(n) == IF n < 0 THEN "-" \o NatText(-n) ELSE NatText(n)

RECURSIVE Escape(_, _)
Escape(s, i) ==
  IF i > Len(s) THEN ""
  ELSE (IF Ch(s, i) \in {"\"", "\\"} THEN "\\" \o Ch(s, i) ELSE Ch(s, i))
         \o Escape(s, i + 1)

Quote(s) == "\"" \o Escape(s, 1) \o "\""

Omitted(v) == v.t \in {"function", "undefined"}

RECURSIVE JSONstringify(_), MembersText(_, _), ElementsText(_, _)
\* Own enumerable properties in order; function and undefined values are
\* left out of objects and written as null in arrays.
JSONstringify(v) ==
  CASE v.t = "number"  -> NumText(v.n)
    [] v.t = "string"  -> Quote(v.s)
    [] v.t = "boolean" -> IF v.b THEN "true" ELSE "false"
    [] v.t = "null"    -> "null"
    [] v.t = "object"  -> "{" \o MembersText(v.props, "") \o "}"
    [] v.t = "array"   -> "[" \o ElementsText(v.elems, "") \o "]"

MembersText(props, sep) ==
  IF props = <<>> THEN ""
  ELSE IF Omitted(Head(props).value) THEN MembersText(Tail(props), sep)
  ELSE sep \o Quote(Head(props).key) \o ":" \o JSONstringify(Head(props).value)
           \o MembersText(Tail(props), ",")

ElementsText(elems, sep) ==
  IF elems = <<>> THEN ""
  ELSE sep \o (IF Omitted(Head(elems)) THEN "null" ELSE JSONstringify(Head(elems)))
           \o ElementsText(Tail(elems), ",")

\* getJSON(obj): JSON.stringify of a heap object reads its own properties.
getJSON(heap, obj) == JSONstringify(JObj(heap[obj].props))

\* ---- JSON.parse ---------------------------------------------------------
ParseError == [ok |-> FALSE, value |-> JNull, next |-> 0]
Parsed(v, next) == [ok |-> TRUE, value |-> v, next |-> next]

Lit(t, i, w) == i + Len(w) - 1 <= Len(t) /\ SubSeq(t, i, i + Len(w) - 1) = w

RECURSIVE SkipWs(_, _)
SkipWs(t, i) == IF Ch(t, i) = " " THEN SkipWs(t, i + 1) ELSE i

RECURSIVE ParseDigits(_, _, _)
ParseDigits(t, i, acc) ==
  IF Ch(t, i) \in Digits
    THEN ParseDigits(t, i + 1, acc * 10 + DigitVal(Ch(t, i)))
    ELSE Parsed(acc, i)

\* Integer literals (the only numbers the model's values hold).
ParseNumber(t, i) ==
  LET neg == Ch(t, i) = "-"
      j   == IF neg THEN i + 1 ELSE i
      d   == ParseDigits(t, j, 0)
  IN IF Ch(t, j) \notin Digits \/ (Ch(t, j) = "0" /\ Ch(t, j + 1) \in Digits)
       THEN ParseError
       ELSE Parsed(JNum(IF neg THEN 0 - d.value ELSE d.value), d.next)

\* The characters of a string literal after its opening quote.
RECURSIVE ParseChars(_, _, _)
ParseChars(t, i, acc) ==
  LET c == Ch(t, i) IN
  IF c = "" THEN ParseError
  ELSE IF c = "\"" THEN Parsed(acc, i + 1)
  ELSE IF c = "\\"
    THEN IF Ch(t, i + 1) \in {"\"", "\\", "/"}
           THEN ParseChars(t, i + 2, acc \o Ch(t, i + 1))
           ELSE ParseError
  ELSE ParseChars(t, i + 1, acc \o c)

ParseString(t, i) ==
  IF Ch(t, i) # "\"" THEN ParseError
  ELSE LET r == ParseChars(t, i + 1, "") IN
       IF r.ok THEN Parsed(JStr(r.value), r.next) ELSE ParseError

RECURSIVE ParseValue(_, _), ParseMembers(_, _, _), ParseElements(_, _, _)
ParseValue(t, i0) ==
  LET i == SkipWs(t, i0)
      c == Ch(t, i)
  IN CASE c = "{" ->
            IF Ch(t, SkipWs(t, i + 1)) = "}"
              THEN Parsed(JObj(<<>>), SkipWs(t, i + 1) + 1)
              ELSE ParseMembers(t, i + 1, <<>>)
       [] c = "[" ->
            IF Ch(t, SkipWs(t, i + 1)) = "]"
              THEN Parsed(JArr(<<>>), SkipWs(t, i + 1) + 1)
              ELSE ParseElements(t, i + 1, <<>>)
       [] c = "\"" -> ParseString(t, i)
       [] c = "-" \/ c \in Digits -> ParseNumber(t, i)
       [] Lit(t, i, "true") -> Parsed(JBool(TRUE), i + 4)
       [] Lit(t, i, "false") -> Parsed(JBool(FALSE), i + 5)
       [] Lit(t, i, "null") -> Parsed(JNull, i + 4)
       [] OTHER -> ParseError

\* "key":value pairs up to the closing brace; a repeated key keeps its
\* first place and takes the last value.
ParseMembers(t, i, acc) ==
  LET k == ParseString(t, SkipWs(t, i)) IN
  IF ~k.ok \/ Ch(t, SkipWs(t, k.next)) # ":" THEN ParseError
  ELSE LET v == ParseValue(t, SkipWs(t, k.next) + 1) IN
       IF ~v.ok THEN ParseError
       ELSE LET n   == SkipWs(t, v.next)
                got == SetProp(acc, k.value.s, v.value)
            IN IF Ch(t, n) = "," THEN ParseMembers(t, n + 1, got)
               ELSE IF Ch(t, n) = "}" THEN Parsed(JObj(got), n + 1)
               ELSE ParseError

ParseElements(t, i, acc) ==
  LET v == ParseValue(t, i) IN
  IF ~v.ok THEN ParseError
  ELSE LET n == SkipWs(t, v.next) IN
       IF Ch(t, n) = "," THEN ParseElements(t, n + 1, Append(acc, v.value))
       ELSE IF Ch(t, n) = "]" THEN Parsed(JArr(Append(acc, v.value)), n + 1)
       ELSE ParseError

\* JSON.parse(text): one value, then nothing but white space.
JSONparse(t) ==
  LET r == ParseValue(t, 1) IN
  IF r.ok /\ SkipWs(t, r.next) = Len(t) + 1 THEN r ELSE ParseError

\* ---- fromJSON -----------------------------------------------------------
\* The own enumerable properties Object.assign copies from a source.
OwnEnumerable(v) ==
  CASE v.t = "object" -> v.props
    [] v.t = "array"  -> [i \in DOMAIN v.elems |-> Prop(NumText(i - 1), v.elems[i])]
    [] v.t = "string" -> [i \in 1..Len(v.s) |-> Prop(NumText(i - 1), JStr(Ch(v.s, i)))]
    [] OTHER -> <<>>

\* Object.assign(target, source): target[key] = value for each, in order.
RECURSIVE ObjectAssign(_, _, _)
ObjectAssign(heap, target, props) ==
  IF props = <<>> THEN heap
  ELSE ObjectAssign([heap EXCEPT ![target].props =
                       SetProp(@, Head(props).key, Head(props).value)],
                    target, Tail(props))

\* Object.create(proto): a new object with no own properties.
ObjectCreate(heap, proto) == Append(heap, [proto |-> proto, props |-> <<>>])

\* Mutant of fromJSON: the parsed fields are assigned to proto itself, which
\* is returned.
fromJSONIntoProto(heap, proto, json) ==
  LET parsed == JSONparse(json) IN
  IF ~parsed.ok
    THEN [thrown |-> TRUE, heap |-> heap, ret |-> 0]
    ELSE [thrown |-> FALSE,
          heap   |-> ObjectAssign(heap, proto, OwnEnumerable(parsed.value)),
          ret    |-> proto]

\* fromJSON(proto, json): Object.create(proto), then Object.assign of the
\* parsed value; JSON.parse throws a SyntaxError on malformed text.
fromJSON(heap, proto, json) ==
  LET obj    == Len(heap) + 1
      made   == ObjectCreate(heap, proto)
      parsed == JSONparse(json)
  IN IF ~parsed.ok
       THEN [thrown |-> TRUE, heap |-> made, ret |-> 0]
       ELSE [thrown |-> FALSE,
             heap   |-> ObjectAssign(made, obj, OwnEnumerable(parsed.value)),
             ret    |-> obj]

(***************************************************************************)
(* The state machine of the selector builder                               *)
(***************************************************************************)
NoCall == [kind |-> "none", cat |-> "", this |-> 0, value |-> "",
           thrown |-> FALSE, ret |-> 0, text |-> "", left |-> 0, right |-> 0]

\* The state after a call with outcome r: the heap it left, and the history.
\* `who` is the Selector the methods ran on, `done` the methods that ran.
Commit(r, who, done, entry, call) ==
  LET grown == Len(r.heap.selectors) > Len(selectors) IN
  /\ selectors' = r.heap.selectors
  /\ arrays' = r.heap.arrays
  /\ sets' = r.heap.sets
  /\ calls' = IF grown
                THEN Append(calls, IF r.thrown THEN <<>> ELSE done)
                ELSE IF r.thrown THEN calls
                     ELSE [calls EXCEPT ![who] = @ \o done]
  /\ origin' = IF grown THEN Append(origin, entry) ELSE origin
  /\ last' = [call EXCEPT !.thrown = r.thrown,
                          !.ret = IF r.thrown THEN 0 ELSE who]
  /\ ncalls' = ncalls + 1
  /\ UNCHANGED jsonVars

Call(cat, value) == [cat |-> cat, value |-> value]

\* cssSelectorBuilder.<cat>(value)
Builder(cat, value, r) ==
  /\ ncalls < MaxCalls
  /\ Commit(r, NewRef(Heap),
            IF cat = "element" THEN <<Call(cat, value)>>
                               ELSE <<Call("element", ""), Call(cat, value)>>,
            cat,
            [NoCall EXCEPT !.kind = "builder", !.cat = cat, !.value = value])

BuilderElement(v) == Builder("element", v, builderElement(Heap, v))

BuilderId(v) == Builder("id", v, builderId(Heap, v))

BuilderClass(v) == Builder("class", v, builderClass(Heap, v))

BuilderAttr(v) == Builder("attr", v, builderAttr(Heap, v))

BuilderPseudoClass(v) == Builder("pseudoClass", v, builderPseudoClass(Heap, v))

BuilderPseudoElement(v) == Builder("pseudoElement", v, builderPseudoElement(Heap, v))

\* selector.<cat>(value) on an existing Selector
Method(cat, this, value, r) ==
  /\ ncalls < MaxCalls
  /\ Commit(r, this, <<Call(cat, value)>>, "",
            [NoCall EXCEPT !.kind = "method", !.cat = cat, !.this = this,
                           !.value = value])

Element(this, v) == Method("element", this, v, element(Heap, this, v))

Id(this, v) == Method("id", this, v, id(Heap, this, v))

Class(this, v) == Method("class", this, v, class(Heap, this, v))

Attr(this, v) == Method("attr", this, v, attr(Heap, this, v))

PseudoClass(this, v) == Method("pseudoClass", this, v, pseudoClass(Heap, this, v))

PseudoElement(this, v) == Method("pseudoElement", this, v, pseudoElement(Heap, this, v))

\* selector.stringify()
Stringify(this) ==
  LET r == stringify(Heap, this) IN
  /\ ncalls < MaxCalls
  /\ selectors' = r.heap.selectors
  /\ arrays' = r.heap.arrays
  /\ sets' = r.heap.sets
  /\ last' = [NoCall EXCEPT !.kind = "stringify", !.this = this,
                            !.thrown = r.thrown, !.text = r.text]
  /\ ncalls' = ncalls + 1
  /\ UNCHANGED <<calls, origin, jsonVars>>

\* cssSelectorBuilder.combine(selector1, combinator, selector2)
Combine(selector1, combinator, selector2) ==
  /\ ncalls < MaxCalls
  /\ Commit(combine(Heap, selector1, combinator, selector2),
            NewRef(Heap), <<>>, "combine",
            [NoCall EXCEPT !.kind = "combine", !.value = combinator,
                           !.left = selector1, !.right = selector2])

\* ---- getJSON / fromJSON calls -------------------------------------------
JsonIdle == [pc |-> "idle", obj |-> 0, text |-> "", proto |-> 0, ret |-> 0,
             thrown |-> FALSE]

\* The caller writes an object literal.
NewObject(props) ==
  /\ jcall.pc = "idle"
  /\ jheap' = Append(jheap, [proto |-> ObjectPrototype, props |-> props])
  /\ jcall' = [jcall EXCEPT !.pc = "built", !.obj = Len(jheap) + 1]
  /\ UNCHANGED <<selectors, arrays, sets, calls, origin, last, ncalls>>

\* new Rectangle(width, height)
NewRectangle(width, height) ==
  /\ jcall.pc = "idle"
  /\ jheap' = Rectangle(jheap, width, height)
  /\ jcall' = [jcall EXCEPT !.pc = "built", !.obj = Len(jheap) + 1]
  /\ UNCHANGED <<selectors, arrays, sets, calls, origin, last, ncalls>>

\* text = getJSON(obj)
GetJSON ==
  /\ jcall.pc = "built"
  /\ jcall' = [jcall EXCEPT !.pc = "serialized", !.text = getJSON(jheap, jcall.obj)]
  /\ UNCHANGED <<jheap, selectors, arrays, sets, calls, origin, last, ncalls>>

\* fromJSON(proto, text), where text came from getJSON(obj)
FromJSON(proto) ==
  LET r == fromJSON(jheap, proto, jcall.text) IN
  /\ jcall.pc = "serialized"
  /\ jheap' = r.heap
  /\ jcall' = [jcall EXCEPT !.pc = "done", !.proto = proto, !.ret = r.ret,
                            !.thrown = r.thrown]
  /\ UNCHANGED <<selectors, arrays, sets, calls, origin, last, ncalls>>

\* fromJSON(proto, text) on a text the caller wrote
FromJSONText(proto, text) ==
  LET r == fromJSON(jheap, proto, text) IN
  /\ jcall.pc = "idle"
  /\ jheap' = r.heap
  /\ jcall' = [jcall EXCEPT !.pc = "parsed", !.text = text, !.proto = proto,
                            !.ret = r.ret, !.thrown = r.thrown]
  /\ UNCHANGED <<selectors, arrays, sets, calls, origin, last, ncalls>>

Init ==
  /\ selectors = <<>>
  /\ arrays = <<>>
  /\ sets = <<>>
  /\ calls = <<>>
  /\ origin = <<>>
  /\ last = NoCall
  /\ ncalls = 0
  /\ jheap = LoadedHeap
  /\ jcall = JsonIdle

Next ==
  \/ \E v \in Values.element : BuilderElement(v)
  \/ \E v \in Values.id : BuilderId(v)
  \/ \E v \in Values.class : BuilderClass(v)
  \/ \E v \in Values.attr : BuilderAttr(v)
  \/ \E v \in Values.pseudoClass : BuilderPseudoClass(v)
  \/ \E v \in Values.pseudoElement : BuilderPseudoElement(v)
  \/ \E this \in DOMAIN selectors, v \in Values.element : Element(this, v)
  \/ \E this \in DOMAIN selectors, v \in Values.id : Id(this, v)
  \/ \E this \in DOMAIN selectors, v \in Values.class : Class(this, v)
  \/ \E this \in DOMAIN selectors, v \in Values.attr : Attr(this, v)
  \/ \E this \in DOMAIN selectors, v \in Values.pseudoClass : PseudoClass(this, v)
  \/ \E this \in DOMAIN selectors, v \in Values.pseudoElement : PseudoElement(this, v)
  \/ \E this \in DOMAIN selectors : Stringify(this)
  \/ \E s1 \in DOMAIN selectors, s2 \in DOMAIN selectors, c \in Combinators :
       Combine(s1, c, s2)

Spec == Init /\ [][Next]_vars

JsonNext ==
  \/ \E props \in PlainProps : NewObject(props)
  \/ \E w \in Dimensions, h \in Dimensions : NewRectangle(w, h)
  \/ GetJSON
  \/ \E proto \in DOMAIN jheap : FromJSON(proto)
  \/ \E proto \in DOMAIN jheap, text \in Texts : FromJSONText(proto, text)

JsonSpec == Init /\ [][JsonNext]_vars

(***************************************************************************)
(* Vocabulary of the properties                                            *)
(***************************************************************************)
Refs == DOMAIN selectors

\* What stringify() returns for a Selector, given the two heaps it reads.
TextOf(sels, arrs, b) == join(arrs[sels[b].parts])

Text(b) == TextOf(selectors, arrays, b)

\* The duplicate-tracking state of a Selector.
SeenOf(sels, sts, b) == sts[sels[b].seen]

\* The whole of one Selector: its fields, its parts and its seen set.
ObjectOf(sels, arrs, sts, b) ==
  [fields |-> sels[b], parts |-> arrs[sels[b].parts], seen |-> sts[sels[b].seen]]

Object(b) == ObjectOf(selectors, arrays, sets, b)

\* The text the documentation gives to a fragment of each category.
FragmentText(c) ==
  CASE c.cat = "element"       -> c.value
    [] c.cat = "id"            -> "#" \o c.value
    [] c.cat = "class"         -> "." \o c.value
    [] c.cat = "attr"          -> "[" \o c.value \o "]"
    [] c.cat = "pseudoClass"   -> ":" \o c.value
    [] c.cat = "pseudoElement" -> "::" \o c.value

RECURSIVE Concatenation(_)
Concatenation(cs) ==
  IF cs = <<>> THEN "" ELSE FragmentText(Head(cs)) \o Concatenation(Tail(cs))

Simple(b) == origin[b] # "combine"

\* The fragment calls the caller made on b that returned normally: the
\* element("") an entry point other than element() makes itself is not one.
UserCalls(b) ==
  IF origin[b] \notin {"element", "combine"} /\ calls[b] # <<>>
    THEN Tail(calls[b])
    ELSE calls[b]

\* The fragment calls the caller made on b, the one that threw last included.
UserAttempted(b) ==
  IF last.kind = "method" /\ last.this = b /\ last.thrown
    THEN Append(UserCalls(b), Call(last.cat, last.value))
    ELSE UserCalls(b)

Has(cs, cat) == \E i \in DOMAIN cs : cs[i].cat = cat

\* No two Selectors share a parts array or a seen set.
NoSharing ==
  \A b, c \in Refs :
    b # c => /\ selectors[b].parts # selectors[c].parts
             /\ selectors[b].seen # selectors[c].seen

(***************************************************************************)
(* Properties of the selector builder                                      *)
(***************************************************************************)

\* C1: class, attr and pseudoClass are repeatable: no call of one of them,
\* through the facade or on an existing Selector, throws; in particular
\* class('a').class('b') returns normally and stringifies to '.a.b'.
C1_RepeatableNeverThrows ==
  /\ last.kind \in {"builder", "method"} /\ last.cat \in RepeatableCategories
       => ~last.thrown
  /\ \A b \in Refs :
       UserAttempted(b) = <<Call("class", "a"), Call("class", "b")>>
         => UserCalls(b) = UserAttempted(b) /\ Text(b) = ".a.b"

\* C2: on one Selector, a call of element, id or pseudoElement throws exactly
\* when that same method has already returned normally on that Selector,
\* whatever was called in between; the first such call never throws, an
\* entry point never throws, and stringify never throws.
C2_SecondUniqueCallThrows ==
  [][/\ last'.kind = "method" /\ last'.cat \in UniqueCategories
          => (last'.thrown <=> Has(calls[last'.this], last'.cat))
     /\ last'.kind \in {"builder", "stringify"} => ~last'.thrown]_vars

\* C2 witness: a second element() throws after an id() was added in between.
C2_Witness ==
  /\ last.kind = "method" /\ last.cat = "element" /\ last.thrown
  /\ origin[last.this] = "element"
  /\ calls[last.this] = <<Call("element", "div"), Call("id", "main")>>

\* C3: a fragment call throws only if it adds a second element, id or
\* pseudo-element to its Selector; in particular the first element() on a
\* Selector started through id, class, attr, pseudoClass or pseudoElement
\* returns normally.
C3_OnlyDuplicatesThrow ==
  last.thrown =>
    /\ last.kind = "method"
    /\ last.cat \in UniqueCategories
    /\ Has(UserCalls(last.this), last.cat)

\* C4 (general part): on a simple selector stringify() returns the fragment
\* texts of the caller's calls that returned normally, concatenated in call
\* order.
CallOrderConcatenation ==
  /\ \A b \in Refs : Simple(b) => Text(b) = Concatenation(UserCalls(b))
  /\ last.kind = "stringify" /\ Simple(last.this)
       => last.text = Concatenation(UserCalls(last.this))

\* C4: the general part, and the two documented chains:
\* id('main').class('container').class('editable') yields
\* '#main.container.editable', and
\* element('a').attr('href$=".png"').pseudoClass('focus') yields
\* 'a[href$=".png"]:focus'.
C4_StringifyConcatenatesInCallOrder ==
  /\ CallOrderConcatenation
  /\ \A b \in Refs :
       /\ UserAttempted(b) = <<Call("id", "main"), Call("class", "container"),
                               Call("class", "editable")>>
            => /\ UserCalls(b) = UserAttempted(b)
               /\ Text(b) = "#main.container.editable"
       /\ UserAttempted(b) = <<Call("element", "a"), Call("attr", "href$=\".png\""),
                               Call("pseudoClass", "focus")>>
            => /\ UserCalls(b) = UserAttempted(b)
               /\ Text(b) = "a[href$=\".png\"]:focus"

\* C5: combine(left, combinator, right) returns normally for every
\* combinator, and the text of its result is the text left had, a space, the
\* combinator, a space, the text right had; left and right may themselves
\* be results of combine.
C5_CombineText ==
  [][last'.kind = "combine" =>
       /\ ~last'.thrown
       /\ TextOf(selectors', arrays', last'.ret) =
            Text(last'.left) \o " " \o last'.value \o " " \o Text(last'.right)]_vars

\* C5 witness: a combine whose left operand is itself the result of a
\* combine, with a combinator outside the four CSS combinators.
C5_Witness ==
  /\ last.kind = "combine" /\ ~last.thrown
  /\ origin[last.left] = "combine"
  /\ Simple(last.right)
  /\ last.value = "&"
  /\ Text(last.ret) = "div + div & div"

\* C6: stringify() never throws, returns the concatenation of the parts,
\* returns the same text when called twice in a row, and leaves the parts,
\* the seen sets and the specificities as they were, so every fragment call
\* has the same outcome after it as before it.
C6_StringifyIsPure ==
  [][last'.kind = "stringify" =>
       /\ ~last'.thrown
       /\ last'.text = Text(last'.this)
       /\ last.kind = "stringify" /\ last.this = last'.this => last'.text = last.text
       /\ UNCHANGED <<selectors, arrays, sets>>
       /\ \A b \in Refs : \A cat \in UniqueCategories \cup RepeatableCategories :
            \A v \in Values[cat] : method(cat, Heap', b, v) = method(cat, Heap, b, v)]_vars

\* C6 witness: stringify() read a selector that holds two fragments.
C6_Witness ==
  /\ last.kind = "stringify" /\ last.text = "#main.container"
  /\ UserCalls(last.this) = <<Call("id", "main"), Call("class", "container")>>

\* C7: Selectors made by separate entry-point calls share nothing: a call
\* on one, or the creation of another, leaves every other one's fields,
\* parts and seen set as they were; no two hold the same array or Set; and
\* a unique-category call throws only on a Selector that itself had it.
C7_BuildersAreIndependent ==
  [][/\ NoSharing'
     /\ \A b \in Refs :
          Simple(b) /\ last'.kind \in {"builder", "method", "stringify"}
                    /\ last'.this # b
            => ObjectOf(selectors', arrays', sets', b) = Object(b)
     /\ last'.kind = "builder" => ~last'.thrown
     /\ last'.kind = "method" /\ last'.thrown => Has(calls[last'.this], last'.cat)]_vars

\* C7 witness: the second of two facade-made Selectors has an id, and an
\* id() on the first returns normally.
C7_Witness ==
  /\ Len(selectors) = 2 /\ Simple(1) /\ Simple(2)
  /\ Has(calls[2], "id")
  /\ last.kind = "method" /\ last.cat = "id" /\ last.this = 1 /\ ~last.thrown

\* C9: a fragment call that throws leaves every Selector's fields
\* (specificity included), parts and seen set as they were, so every
\* fragment call has the same outcome after it as before it.
C9_ThrowLeavesBuilderUnchanged ==
  [][last'.thrown =>
       /\ UNCHANGED <<selectors, arrays, sets, calls>>
       /\ \A b \in Refs : \A cat \in UniqueCategories \cup RepeatableCategories :
            \A v \in Values[cat] : method(cat, Heap', b, v) = method(cat, Heap, b, v)]_vars

\* C9 witness: a duplicate id() threw on a Selector that holds two fragments.
C9_Witness ==
  /\ last.kind = "method" /\ last.cat = "id" /\ last.thrown
  /\ Text(last.this) = "div#main"

\* C10: combine returns a new Selector and leaves every existing one as it
\* was; the new one shares no array or Set with another; and a later
\* fragment call on an operand or on the result changes only its target.
C10_CombineDoesNotAlias ==
  [][/\ last'.kind = "combine" =>
          /\ last'.ret \notin Refs
          /\ \A b \in Refs : ObjectOf(selectors', arrays', sets', b) = Object(b)
          /\ \A b \in Refs :
               /\ selectors'[last'.ret].parts # selectors'[b].parts
               /\ selectors'[last'.ret].seen # selectors'[b].seen
     /\ last'.kind = "method" =>
          \A b \in Refs \ {last'.this} :
            ~Simple(b) \/ ~Simple(last'.this)
              => ObjectOf(selectors', arrays', sets', b) = Object(b)]_vars

\* C10 witness: after combine(s, c, s), a fragment call on s returned
\* normally and the combined Selector still has its text.
C10_Witness ==
  /\ Len(selectors) = 2 /\ origin[2] = "combine"
  /\ last.kind = "method" /\ last.this = 1 /\ ~last.thrown
  /\ Text(1) = "div#main" /\ Text(2) = "div + div"

(***************************************************************************)
(* Properties of getJSON / fromJSON                                        *)
(***************************************************************************)
Fields(props) == {props[i] : i \in DOMAIN props}

HasOwn(props, key) == \E i \in DOMAIN props : props[i].key = key

DocumentedFromJSON ==
  jcall.pc = "parsed" =>
    IF jcall.text = "{\"width\":10, \"height\":20}"
      THEN /\ ~jcall.thrown
           /\ jheap[jcall.ret].props = <<Prop("width", JNum(10)), Prop("height", JNum(20))>>
      ELSE jcall.thrown

====
